---- MODULE Spec2Model ----
(***************************************************************************)
(* The partial geometry cache of plotplus (src/plotplus.py): MapSet,       *)
(* PartialShapelyFeature, PartialNaturalEarthFeature and the Plot methods  *)
(* that render cached features.                                            *)
(*                                                                         *)
(* A geometry is the sequence of its vertices <<lon, lat>>; the spatial    *)
(* predicate of the geometry provider is evaluated on the vertices.  A     *)
(* georange is <<latmin, latmax, lonmin, lonmax>>, an extent is            *)
(* <<lonmin, lonmax, latmin, latmax>>, as in the source.                   *)
(***************************************************************************)
EXTENDS Integers, Sequences, FiniteSets, TLC

VARIABLES
    upstream,   \* the geometry files on disk: source key -> sequence of geometries
    features,   \* heap of Partial*Feature objects, addressed by index
    mapsets,    \* heap of MapSet objects, addressed by index
    files,      \* the cache files on disk: path -> opcode stream
    plot,       \* the Plot object: its axes, mapset and data grid
    artists,    \* the cached features added to the axes, in order
    built,      \* per constructor call: its inputs and the _geoms it left
    saved,      \* per path: the object graph as it was when save wrote it
    scans,      \* number of Feature.intersecting_geometries passes run so far
    remakes,    \* number of make_partial calls made after construction
    loaded,     \* the MapSet the last successful load returned, NoRef before any
    result,     \* the sequence the last query returned, or the last draw drew
    err,        \* the exception raised by the last call, "" when it returned
    handles,    \* number of file objects that are open
    threads,    \* per thread: the constructor call it is running, and how far
    fig,        \* the texts and colorbar axes the Plot added to its figure
    hem,        \* the Northhem objects: their font size, note and last contour
    defaults,   \* the default dicts of Northhem.contour's parameters
    calls,      \* what the last Plot.draw invoked and printed, in order
    calc        \* the arguments and the value of the last function call

vars == <<upstream, features, mapsets, files, plot, artists, built, saved,
          scans, remakes, loaded, result, err, handles, threads, fig, hem,
          defaults, calls, calc>>

----------------------------------------------------------------------------
(* Bounds of the model *)

MaxFeatures == 2
MaxMapSets == 2
MaxArtists == 2
MaxRemakes == 1
MaxThreads == 2
MaxTexts == 3
MaxColorbars == 2
MaxKeys == 2
MaxNotes == 2

----------------------------------------------------------------------------
(* Inputs *)

\* geometries of the upstream collections
gChina  == << <<120, 20>>, <<125, 25>> >>
gEdge   == << <<135, 35>> >>
gAround == << <<100, 20>>, <<120, 50>> >>
gSouth  == << <<115, 8>> >>
gEast   == << <<175, 10>> >>
gWest   == << <<-170, 10>> >>
gBoth   == << <<180, 20>>, <<-180, 20>> >>
gFar    == << <<0, 60>> >>

Coastline == "physical/coastline"
Borders   == "cultural/admin_0_boundary_lines_land"
ShpFile   == "shapefile/provinces.shp"

\* names no Natural Earth file and no shapefile answers to
Atlantis   == "physical/atlantis"
NoShpFile  == "shapefile/nowhere.shp"

NESources  == {Coastline, Borders}
ShpSources == {ShpFile}
Sources    == NESources \cup ShpSources

\* the collections the geometry files hold
World ==
    [s \in Sources |->
        CASE s = Coastline -> <<gChina, gEast, gBoth, gAround, gWest, gFar, gSouth>>
          [] s = Borders   -> <<gBoth, gEdge, gChina>>
          [] OTHER         -> <<gWest, gBoth, gSouth, gChina, gEast>>]

\* georanges <<latmin, latmax, lonmin, lonmax>> handed to the constructors
ChinaCoast   == <<15, 35, 110, 135>>
DateLine     == <<0, 30, 170, 200>>
EastOf180    == <<0, 30, 190, 200>>
GlobeBand    == <<0, 30, -180, 180>>
InvertedLat  == <<10, 5, 110, 135>>
InvertedLon  == <<0, 30, 135, 110>>
FlatLat      == <<20, 20, 110, 135>>
InvertedDate == <<30, 0, 170, 200>>

Georanges == { ChinaCoast, DateLine, EastOf180, GlobeBand,
               InvertedLat, InvertedLon, FlatLat, InvertedDate }

QueryExtents == { <<110, 135, 15, 35>>, <<-10, 10, 50, 70>> }

Paths == { "cache.pkl" }
Black == "#222222"

----------------------------------------------------------------------------
(* The geometry provider: shapely's box and intersects *)

\* sgeom.box(minx, miny, maxx, maxy): the polygon through the four corners
Box(minx, miny, maxx, maxy) ==
    << <<maxx, miny>>, <<maxx, maxy>>, <<minx, maxy>>, <<minx, miny>> >>

\* the closed area a rectangular polygon covers contains the point p
Covers(poly, p) ==
    /\ \E i \in 1..Len(poly) : poly[i][1] <= p[1]
    /\ \E i \in 1..Len(poly) : poly[i][1] >= p[1]
    /\ \E i \in 1..Len(poly) : poly[i][2] <= p[2]
    /\ \E i \in 1..Len(poly) : poly[i][2] >= p[2]

\* extent_geom.intersects(geom)
Intersects(poly, geom) == \E k \in 1..Len(geom) : Covers(poly, geom[k])

\* the extent handed to box in its own order: box(lonmin, lonmax, latmin, latmax)
BaseIntersectingGeometriesUnordered(geoms, extent) ==
    SelectSeq(geoms,
        LAMBDA g : Intersects(Box(extent[1], extent[2], extent[3], extent[4]), g))

\* cartopy Feature.intersecting_geometries(extent) over the feature's geometries()
BaseIntersectingGeometries(geoms, extent) ==
    SelectSeq(geoms,
        LAMBDA g : Intersects(Box(extent[1], extent[3], extent[2], extent[4]), g))

----------------------------------------------------------------------------
(* Partial features *)

Antimeridian == 180
FullTurn == 360

NoneStr == "<None>"     \* Python None in a string-valued attribute
NoRef == 0              \* Python None in a feature-valued attribute

\* self.extent = georange[2:] + georange[:2]
ExtentOf(georange) == SubSeq(georange, 3, 4) \o SubSeq(georange, 1, 2)

Straddles(extent) == extent[1] < Antimeridian /\ Antimeridian < extent[2]

Extent1(extent) == <<extent[1], Antimeridian, extent[3], extent[4]>>
\* the western half without the wrap of lonmax into -180..180
Extent2Unwrapped(extent) == <<-Antimeridian, extent[2], extent[3], extent[4]>>
Extent2(extent) == <<-Antimeridian, extent[2] - FullTurn, extent[3], extent[4]>>

\* the two passes with the second pass dropping what the first pass found
PartialOfOnce(geoms, extent) ==
    IF Straddles(extent)
    THEN LET first == BaseIntersectingGeometries(geoms, Extent1(extent)) IN
         first \o SelectSeq(BaseIntersectingGeometries(geoms, Extent2(extent)),
                      LAMBDA g : \A k \in DOMAIN first : first[k] # g)
    ELSE BaseIntersectingGeometries(geoms, extent)

\* the filter both make_partial methods apply to the current _geoms
PartialOf(geoms, extent) ==
    IF Straddles(extent)
    THEN BaseIntersectingGeometries(geoms, Extent1(extent))
            \o BaseIntersectingGeometries(geoms, Extent2(extent))
    ELSE BaseIntersectingGeometries(geoms, extent)

Passes(extent) == IF Straddles(extent) THEN 2 ELSE 1

\* the collection taken from the feature built last instead of from the file
ReadNaturalEarthStale(source) ==
    IF features = <<>> THEN upstream[source] ELSE features[Len(features)].geoms

\* a path lookup that answers the coastline file for a name it does not know
NaturalEarthPathOrDefault(source) ==
    IF source \in DOMAIN upstream THEN source ELSE Coastline

\* ciosr.natural_earth(resolution, category, name): the file of the name
NaturalEarthPath(source) == source

\* the file is there to be read
Readable(path) == path \in DOMAIN upstream

\* ciosr.Reader(path).geometries() of a Natural Earth source
ReadNaturalEarth(source) == upstream[NaturalEarthPath(source)]

\* a reader that takes the records out of the file it reads
AfterReadDrained(up, path) == [up EXCEPT ![path] = <<>>]

\* the files after ciosr.Reader(path).geometries() was read to its end: the
\* reader opens the file for reading and hands out new geometry objects
AfterRead(up, path) == up

\* make_partial keeping the whole collection it read
MakePartialNEUnfiltered(f) ==
    [f EXCEPT !.geoms = ReadNaturalEarth(f.source)]

\* PartialNaturalEarthFeature.make_partial
MakePartialNE(f) ==
    [f EXCEPT !.geoms = PartialOf(ReadNaturalEarth(f.source), f.extent)]

\* PartialShapelyFeature.make_partial
MakePartialShp(f) ==
    [f EXCEPT !.geoms = PartialOf(f.geoms, f.extent)]

NoKwargs == [facecolor |-> "unset", edgecolor |-> "unset"]

\* PartialNaturalEarthFeature.__init__
NewNE(source, georange) ==
    MakePartialNE([kind |-> "NE", source |-> source, extent |-> ExtentOf(georange),
                   geoms |-> <<>>, kwargs |-> NoKwargs])

\* PartialShapelyFeature.from_shp / __init__ (the object keeps no name of its file)
NewShp(source, georange) ==
    MakePartialShp([kind |-> "Shp", source |-> NoneStr, extent |-> ExtentOf(georange),
                    geoms |-> upstream[source], kwargs |-> NoKwargs])

\* geometries()
Geometries(f) == f.geoms

\* a query's answer: the sequence, and the passes over the collection it took
Answer(geoms, passes) == [geoms |-> geoms, passes |-> passes]

\* the intersecting_geometries(extent) the partial features inherit and override
IntersectingGeometriesInherited(f, extent) ==
    Answer(BaseIntersectingGeometries(Geometries(f), extent), 1)

\* intersecting_geometries(extent) of both partial features
IntersectingGeometries(f, extent) == Answer(Geometries(f), 0)

----------------------------------------------------------------------------
(* pickle: MapSet.save writes the object graph as a stream of opcodes for  *)
(* pickle's stack machine, MapSet.load runs the machine over the stream.   *)

Tok(op)         == [op |-> op, s |-> "", n |-> 0]
IntTok(n)       == [op |-> "INT", s |-> "", n |-> n]
StrTok(s)       == [op |-> "STR", s |-> s, n |-> 0]
GlobalTok(name) == [op |-> "GLOBAL", s |-> name, n |-> 0]

RECURSIVE Concat(_)
Concat(ss) == IF ss = <<>> THEN <<>> ELSE Head(ss) \o Concat(Tail(ss))

DumpStr(s) == IF s = NoneStr THEN <<Tok("NONE")>> ELSE <<StrTok(s)>>

DumpInts(t) == <<Tok("MARK")>> \o [k \in 1..Len(t) |-> IntTok(t[k])] \o <<Tok("TUPLE")>>

\* a geometry reduces to from_wkb(bytes): the vertex count, then the coordinates
DumpGeom(g) ==
    <<GlobalTok("from_wkb"), Tok("MARK"), IntTok(Len(g))>>
        \o Concat([k \in 1..Len(g) |-> <<IntTok(g[k][1]), IntTok(g[k][2])>>])
        \o <<Tok("TUPLE"), Tok("REDUCE")>>

DumpGeoms(gs) ==
    <<Tok("EMPTY_LIST")>>
        \o (IF gs = <<>> THEN <<>>
            ELSE <<Tok("MARK")>> \o Concat([k \in 1..Len(gs) |-> DumpGeom(gs[k])])
                    \o <<Tok("APPENDS")>>)

DumpItem(key, value) == <<StrTok(key)>> \o value

\* _kwargs holds only the keys that were ever set
DumpKwargs(kw) ==
    <<Tok("EMPTY_DICT")>>
        \o (IF kw.facecolor = "unset" /\ kw.edgecolor = "unset" THEN <<>>
            ELSE <<Tok("MARK")>>
                \o (IF kw.facecolor = "unset" THEN <<>>
                    ELSE DumpItem("facecolor", DumpStr(kw.facecolor)))
                \o (IF kw.edgecolor = "unset" THEN <<>>
                    ELSE DumpItem("edgecolor", DumpStr(kw.edgecolor)))
                \o <<Tok("SETITEMS")>>)

ClassOf(kind) ==
    IF kind = "NE" THEN "PartialNaturalEarthFeature" ELSE "PartialShapelyFeature"

DumpObject(cls, items) ==
    <<GlobalTok(cls), Tok("EMPTY_TUPLE"), Tok("NEWOBJ"), Tok("EMPTY_DICT"), Tok("MARK")>>
        \o items \o <<Tok("SETITEMS"), Tok("BUILD")>>

DumpFeature(f) ==
    DumpObject(ClassOf(f.kind),
        DumpItem("source", DumpStr(f.source))
            \o DumpItem("extent", DumpInts(f.extent))
            \o DumpItem("_geoms", DumpGeoms(f.geoms))
            \o DumpItem("_kwargs", DumpKwargs(f.kwargs)))

DumpRef(heap, ref) == IF ref = NoRef THEN <<Tok("NONE")>> ELSE DumpFeature(heap[ref])

\* pickle.dump(self, f) of a MapSet whose features live in heap
Dumps(m, heap) ==
    DumpObject("MapSet",
        DumpItem("proj", DumpStr(m.proj))
            \o DumpItem("georange", DumpInts(m.georange))
            \o DumpItem("scale", DumpStr(m.scale))
            \o DumpItem("coastline", DumpRef(heap, m.coastline))
            \o DumpItem("country", DumpRef(heap, m.country))
            \o DumpItem("province", DumpRef(heap, m.province)))
        \o <<Tok("STOP")>>

\* values on the unpickler's stack
Val(t) == [t |-> t, n |-> 0, s |-> "", items |-> <<>>]
Failed == Val("error")

\* index of the topmost MARK, 0 when there is none
TopMark(stack) ==
    LET marks == {i \in 1..Len(stack) : stack[i].t = "mark"} IN
    IF marks = {} THEN 0 ELSE CHOOSE i \in marks : \A j \in marks : j <= i

\* from_wkb(<<count, x1, y1, ...>>)
FromWkb(args) ==
    IF /\ Len(args) >= 1
       /\ \A k \in 1..Len(args) : args[k].t = "int"
       /\ args[1].n >= 0
       /\ Len(args) = 1 + 2 * args[1].n
    THEN [Val("geom") EXCEPT
            !.items = [k \in 1..args[1].n |-> <<args[2 * k].n, args[2 * k + 1].n>>]]
    ELSE Failed

\* the machine has stopped: it met STOP, or an opcode it could not execute
Stopped(stack) ==
    stack # <<>> /\ stack[Len(stack)].t \in {"halt", "error"}

\* one opcode of the stack machine: the new stack
Step(tok, stack) ==
    LET n    == Len(stack)
        mk   == TopMark(stack)
        push(v) == Append(stack, v)
        above == SubSeq(stack, mk + 1, n)
        below == SubSeq(stack, 1, mk - 1)
    IN
    CASE Stopped(stack)         -> stack
      [] tok.op = "NONE"        -> push(Val("none"))
      [] tok.op = "INT"         -> push([Val("int") EXCEPT !.n = tok.n])
      [] tok.op = "STR"         -> push([Val("str") EXCEPT !.s = tok.s])
      [] tok.op = "GLOBAL"      -> push([Val("global") EXCEPT !.s = tok.s])
      [] tok.op = "MARK"        -> push(Val("mark"))
      [] tok.op = "EMPTY_TUPLE" -> push(Val("tuple"))
      [] tok.op = "EMPTY_LIST"  -> push(Val("list"))
      [] tok.op = "EMPTY_DICT"  -> push(Val("dict"))
      [] tok.op = "TUPLE" ->
            IF mk = 0 THEN <<Failed>>
            ELSE Append(below, [Val("tuple") EXCEPT !.items = above])
      [] tok.op = "APPENDS" ->
            IF mk < 2 \/ stack[mk - 1].t # "list" THEN <<Failed>>
            ELSE Append(SubSeq(stack, 1, mk - 2),
                    [stack[mk - 1] EXCEPT !.items = @ \o above])
      [] tok.op = "SETITEMS" ->
            IF mk < 2 \/ stack[mk - 1].t # "dict" \/ Len(above) % 2 # 0 THEN <<Failed>>
            ELSE Append(SubSeq(stack, 1, mk - 2),
                    [stack[mk - 1] EXCEPT !.items = @ \o above])
      [] tok.op = "NEWOBJ" ->
            IF n < 2 \/ stack[n - 1].t # "global" \/ stack[n].t # "tuple" THEN <<Failed>>
            ELSE Append(SubSeq(stack, 1, n - 2),
                    [Val("obj") EXCEPT !.s = stack[n - 1].s])
      [] tok.op = "BUILD" ->
            IF n < 2 \/ stack[n - 1].t # "obj" \/ stack[n].t # "dict" THEN <<Failed>>
            ELSE Append(SubSeq(stack, 1, n - 2),
                    [stack[n - 1] EXCEPT !.items = stack[n].items])
      [] tok.op = "REDUCE" ->
            IF n < 2 \/ stack[n - 1].t # "global" \/ stack[n].t # "tuple"
                \/ stack[n - 1].s # "from_wkb" THEN <<Failed>>
            ELSE Append(SubSeq(stack, 1, n - 2), FromWkb(stack[n].items))
      [] tok.op = "STOP" ->
            IF n = 0 THEN <<Failed>>
            ELSE <<[Val("halt") EXCEPT !.items = <<stack[n]>>]>>
      [] OTHER -> <<Failed>>

\* the stack after the opcodes lo..hi have run from stack
RECURSIVE Run(_, _, _, _)
Run(toks, lo, hi, stack) ==
    IF lo > hi \/ Len(stack) < 0 THEN stack
    ELSE IF lo = hi THEN Step(toks[lo], stack)
    ELSE LET mid == (lo + hi) \div 2
             half == Run(toks, lo, mid, stack) IN
         Run(toks, mid + 1, hi, half)

\* pickle.load(f): the object the stream describes, or Failed when the stream
\* ends before STOP or holds an opcode that cannot be executed
Loads(toks) ==
    LET final == Run(toks, 1, Len(toks), <<>>) IN
    IF final # <<>> /\ final[Len(final)].t = "halt"
    THEN final[Len(final)].items[1]
    ELSE Failed

\* the value of a key in a dict's items (the last assignment wins)
DictGet(items, key) ==
    LET ks == {i \in 1..(Len(items) \div 2) :
                  items[2 * i - 1].t = "str" /\ items[2 * i - 1].s = key} IN
    IF ks = {} THEN Val("missing")
    ELSE items[2 * (CHOOSE i \in ks : \A j \in ks : j <= i)]

ToStr(v) == IF v.t = "none" THEN NoneStr ELSE v.s
ToInts(v) == [k \in 1..Len(v.items) |-> v.items[k].n]
\* the list read back to front
ToGeomsReversed(v) == [k \in 1..Len(v.items) |-> v.items[Len(v.items) + 1 - k].items]
ToGeoms(v) == [k \in 1..Len(v.items) |-> v.items[k].items]

ToKwargs(v) ==
    LET fc == DictGet(v.items, "facecolor")
        ec == DictGet(v.items, "edgecolor") IN
    [facecolor |-> IF fc.t = "missing" THEN "unset" ELSE ToStr(fc),
     edgecolor |-> IF ec.t = "missing" THEN "unset" ELSE ToStr(ec)]

\* the feature object an unpickled value is
ToFeature(v) ==
    [kind   |-> IF v.s = "PartialNaturalEarthFeature" THEN "NE" ELSE "Shp",
     source |-> ToStr(DictGet(v.items, "source")),
     extent |-> ToInts(DictGet(v.items, "extent")),
     geoms  |-> ToGeoms(DictGet(v.items, "_geoms")),
     kwargs |-> ToKwargs(DictGet(v.items, "_kwargs"))]

\* the features an unpickled MapSet brings with it, in attribute order
LoadedFeatures(v) ==
    LET slot(key) == LET a == DictGet(v.items, key) IN
                     IF a.t = "obj" THEN <<ToFeature(a)>> ELSE <<>> IN
    slot("coastline") \o slot("country") \o slot("province")

\* the unpickled MapSet, its features placed in the heap after index base
ToMapSet(v, base) ==
    LET has(key) == DictGet(v.items, key).t = "obj"
        c1 == IF has("coastline") THEN 1 ELSE 0
        c2 == IF has("country") THEN 1 ELSE 0 IN
    [proj      |-> ToStr(DictGet(v.items, "proj")),
     georange  |-> ToInts(DictGet(v.items, "georange")),
     scale     |-> ToStr(DictGet(v.items, "scale")),
     coastline |-> IF has("coastline") THEN base + 1 ELSE NoRef,
     country   |-> IF has("country") THEN base + c1 + 1 ELSE NoRef,
     province  |-> IF has("province") THEN base + c1 + c2 + 1 ELSE NoRef]

\* a MapSet with the features it refers to, by value
Graph(m, heap) ==
    LET at(ref) == IF ref = NoRef THEN <<>> ELSE <<heap[ref]>> IN
    [proj |-> m.proj, georange |-> m.georange, scale |-> m.scale,
     coastline |-> at(m.coastline), country |-> at(m.country),
     province |-> at(m.province)]

----------------------------------------------------------------------------
(* Operations *)

Threads == 1..MaxThreads

\* a thread that runs no constructor
IdleThread == [pc |-> "idle", source |-> NoneStr, extent |-> <<>>,
               geoms |-> <<>>, first |-> <<>>, raced |-> FALSE]

\* the empty string of mmnote; a note string is the sequence of the notes
\* that ' | ' joins in it
NoNote == <<>>

\* Plot(inside_axis=inside_axis): self.ax = None; self.mapset = None;
\* self.mmnote = ''
NewPlotObject(inside_axis) ==
    [ax |-> FALSE, mapset |-> NoRef, xy |-> FALSE, proj |-> NoneStr,
     georange |-> <<>>, inside_axis |-> inside_axis, mmnote |-> NoNote]

\* a figure with no text and no colorbar axes
NoArtists == [texts |-> <<>>, caxes |-> 0]

\* dict(): a dict is the sequence of its items, in insertion order
EmptyDict == <<>>

\* the Northhem objects of the process
Hems == {"n1", "n2"}

\* Northhem(): self.mmnote = ''; self.fontsize = dict(..., clabel=5, ...);
\* nothing labelled or styled yet
NewNorthhem == [mmnote |-> NoNote, clabel |-> "5", labelled |-> EmptyDict,
                styled |-> EmptyDict]

\* no function was called yet
NoCall == [f |-> NoneStr, args |-> <<>>, value |-> <<>>, after |-> <<>>]

Init ==
    /\ upstream = World
    /\ features = <<>>
    /\ mapsets = <<>>
    /\ files = [p \in {} |-> <<>>]
    /\ plot = NewPlotObject(FALSE)
    /\ artists = <<>>
    /\ built = <<>>
    /\ saved = [p \in {} |-> <<>>]
    /\ scans = 0
    /\ remakes = 0
    /\ loaded = NoRef
    /\ result = <<>>
    /\ err = ""
    /\ handles = 0
    /\ threads = [t \in Threads |-> IdleThread]
    /\ fig = NoArtists
    /\ hem = [h \in Hems |-> NewNorthhem]
    /\ defaults = [clabeldict |-> EmptyDict, vlinedict |-> EmptyDict]
    /\ calls = <<>>
    /\ calc = NoCall

Built(kind, source, georange, f) ==
    [kind |-> kind, source |-> source, georange |-> georange, geoms |-> f.geoms]

\* PartialNaturalEarthFeature(category, name, scale, georange=georange)
BuildNE(source, georange) ==
    /\ Len(features) < MaxFeatures
    /\ IF Readable(NaturalEarthPath(source))
       THEN LET f == NewNE(source, georange) IN
            /\ features' = Append(features, f)
            /\ built' = Append(built, Built("NE", source, georange, f))
            /\ scans' = scans + Passes(f.extent)
            /\ upstream' = AfterRead(upstream, NaturalEarthPath(source))
            /\ err' = ""
       ELSE \* the download of the missing file fails inside ciosr.natural_earth
            /\ err' = "URLError"
            /\ UNCHANGED <<upstream, features, built, scans>>
    /\ UNCHANGED <<fig, hem, defaults, calls, calc>>
    /\ UNCHANGED <<handles, threads, loaded, mapsets, files, plot,
                   artists, saved, remakes, result>>

\* PartialShapelyFeature.from_shp(directory, georange=georange)
BuildShp(source, georange) ==
    /\ Len(features) < MaxFeatures
    /\ IF Readable(source)
       THEN LET f == NewShp(source, georange) IN
            /\ features' = Append(features, f)
            /\ built' = Append(built, Built("Shp", source, georange, f))
            /\ scans' = scans + Passes(f.extent)
            /\ upstream' = AfterRead(upstream, source)
            /\ err' = ""
       ELSE \* ciosr.Reader(directory) cannot open the shapefile
            /\ err' = "ShapefileException"
            /\ UNCHANGED <<upstream, features, built, scans>>
    /\ UNCHANGED <<fig, hem, defaults, calls, calc>>
    /\ UNCHANGED <<handles, threads, loaded, mapsets, files, plot,
                   artists, saved, remakes, result>>

\* feature.make_partial() called again on a constructed feature
MakePartial(i) ==
    /\ remakes < MaxRemakes
    /\ features' = [features EXCEPT ![i] =
            IF @.kind = "NE" THEN MakePartialNE(@) ELSE MakePartialShp(@)]
    /\ scans' = scans + Passes(features[i].extent)
    /\ remakes' = remakes + 1
    /\ upstream' = IF features[i].kind = "NE"
                   THEN AfterRead(upstream, NaturalEarthPath(features[i].source))
                   ELSE upstream
    /\ err' = ""
    /\ UNCHANGED <<fig, hem, defaults, calls, calc>>
    /\ UNCHANGED <<handles, threads, loaded, mapsets, files, plot,
                   artists, built, saved, result>>

\* feature.geometries()
CallGeometries(i) ==
    /\ result' = Geometries(features[i])
    /\ err' = ""
    /\ UNCHANGED <<fig, hem, defaults, calls, calc>>
    /\ UNCHANGED <<upstream, handles, threads, loaded, features, mapsets, files,
                   plot, artists, built, saved, scans, remakes>>

\* feature.intersecting_geometries(extent)
CallIntersecting(i, extent) ==
    /\ result' = IntersectingGeometries(features[i], extent).geoms
    /\ scans' = scans + IntersectingGeometries(features[i], extent).passes
    /\ err' = ""
    /\ UNCHANGED <<fig, hem, defaults, calls, calc>>
    /\ UNCHANGED <<upstream, handles, threads, loaded, features, mapsets, files,
                   plot, artists, built, saved, remakes>>

\* MapSet(proj=proj, georange=georange, coastline=c, country=k, province=p)
NewMapSet(proj, georange, c, k, p) ==
    /\ Len(mapsets) < MaxMapSets
    /\ mapsets' = Append(mapsets,
            [proj |-> proj, georange |-> georange, scale |-> NoneStr,
             coastline |-> c, country |-> k, province |-> p])
    /\ err' = ""
    /\ UNCHANGED <<fig, hem, defaults, calls, calc>>
    /\ UNCHANGED <<upstream, handles, threads, loaded, features, files, plot,
                   artists, built, saved, scans, remakes, result>>

\* MapSet.from_natural_earth(georange=georange, coastline=c, country=k)
FromNaturalEarth(georange, c, k) ==
    LET fc == IF c THEN <<NewNE(Coastline, georange)>> ELSE <<>>
        fk == IF k THEN <<NewNE(Borders, georange)>> ELSE <<>>
        n  == Len(features) IN
    /\ Len(mapsets) < MaxMapSets
    /\ n + Len(fc) + Len(fk) <= MaxFeatures
    /\ features' = features \o fc \o fk
    /\ built' = built
            \o (IF c THEN <<Built("NE", Coastline, georange, fc[1])>> ELSE <<>>)
            \o (IF k THEN <<Built("NE", Borders, georange, fk[1])>> ELSE <<>>)
    /\ scans' = scans + Passes(ExtentOf(georange)) * (Len(fc) + Len(fk))
    /\ mapsets' = Append(mapsets,
            [proj |-> "P", georange |-> georange, scale |-> "50m",
             coastline |-> IF c THEN n + 1 ELSE NoRef,
             country |-> IF k THEN n + Len(fc) + 1 ELSE NoRef,
             province |-> NoRef])
    /\ upstream' = LET up == IF c THEN AfterRead(upstream, NaturalEarthPath(Coastline))
                                  ELSE upstream IN
                   IF k THEN AfterRead(up, NaturalEarthPath(Borders)) ELSE up
    /\ err' = ""
    /\ UNCHANGED <<fig, hem, defaults, calls, calc>>
    /\ UNCHANGED <<handles, threads, loaded, files, plot, artists,
                   saved, remakes, result>>

\* the georange a constructor was given, from the extent it stored
GeorangeOf(extent) == SubSeq(extent, 3, 4) \o SubSeq(extent, 1, 2)

\* threads inside a constructor
Active(ts) == {t \in Threads : ts[t].pc # "idle"}

\* threads between their read of the file and their last pass over it
Midway(ts) == {t \in Threads : ts[t].pc \in {"read", "pass2"}}

\* an attribute _geoms that all instances have in common
ClassGeoms(ts, t) == ts[CHOOSE u \in Threads : \A v \in Threads : u <= v].geoms

\* self.geometries() inside make_partial: iter(self._geoms) of the instance
\* the thread constructs
OwnGeoms(ts, t) == ts[t].geoms

\* a thread calls PartialNaturalEarthFeature(..., georange=georange):
\* self.extent = ...; self._geoms = ()
T_Init(t, source, georange) ==
    /\ threads[t].pc = "idle"
    /\ Len(features) + Cardinality(Active(threads)) < MaxFeatures
    /\ Readable(NaturalEarthPath(source))
    /\ threads' = [threads EXCEPT ![t] =
            [pc |-> "init", source |-> source, extent |-> ExtentOf(georange),
             geoms |-> <<>>, first |-> <<>>, raced |-> FALSE]]
    /\ err' = ""
    /\ UNCHANGED <<fig, hem, defaults, calls, calc>>
    /\ UNCHANGED <<upstream, features, mapsets, files, plot, artists, built,
                   saved, scans, remakes, loaded, result, handles>>

\* make_partial: self._geoms = tuple(ciosr.Reader(path).geometries())
T_Read(t) ==
    /\ threads[t].pc = "init"
    /\ threads' = [threads EXCEPT
            ![t].pc = "read",
            ![t].geoms = ReadNaturalEarth(threads[t].source)]
    /\ upstream' = AfterRead(upstream, NaturalEarthPath(threads[t].source))
    /\ UNCHANGED <<fig, hem, defaults, calls, calc>>
    /\ UNCHANGED <<features, mapsets, files, plot, artists, built, saved, scans,
                   remakes, loaded, result, err, handles>>

\* make_partial: list(super().intersecting_geometries(extent1)), or the one
\* pass of a region that does not straddle 180
T_Pass1(t) ==
    /\ threads[t].pc = "read"
    /\ LET th == threads[t]
           racing == Midway(threads) \ {t} # {} IN
       threads' = [threads EXCEPT ![t] =
            IF Straddles(th.extent)
            THEN [th EXCEPT !.pc = "pass2",
                    !.first = BaseIntersectingGeometries(OwnGeoms(threads, t),
                                                         Extent1(th.extent)),
                    !.raced = racing]
            ELSE [th EXCEPT !.pc = "done",
                    !.geoms = BaseIntersectingGeometries(OwnGeoms(threads, t),
                                                         th.extent),
                    !.raced = racing]]
    /\ UNCHANGED <<fig, hem, defaults, calls, calc>>
    /\ UNCHANGED <<upstream, features, mapsets, files, plot, artists, built,
                   saved, scans, remakes, loaded, result, err, handles>>

\* make_partial: ... + list(super().intersecting_geometries(extent2)), and
\* the assignment of the sum to self._geoms
T_Pass2(t) ==
    /\ threads[t].pc = "pass2"
    /\ LET th == threads[t] IN
       threads' = [threads EXCEPT ![t] =
            [th EXCEPT !.pc = "done",
                !.geoms = th.first
                    \o BaseIntersectingGeometries(OwnGeoms(threads, t),
                                                  Extent2(th.extent)),
                !.first = <<>>,
                !.raced = th.raced \/ Midway(threads) \ {t} # {}]]
    /\ UNCHANGED <<fig, hem, defaults, calls, calc>>
    /\ UNCHANGED <<upstream, features, mapsets, files, plot, artists, built,
                   saved, scans, remakes, loaded, result, err, handles>>

\* the constructor returns the feature to its thread
T_Return(t) ==
    /\ threads[t].pc = "done"
    /\ LET th == threads[t]
           f == [kind |-> "NE", source |-> th.source, extent |-> th.extent,
                 geoms |-> th.geoms, kwargs |-> NoKwargs] IN
       /\ features' = Append(features, f)
       /\ built' = Append(built,
                Built("NE", th.source, GeorangeOf(th.extent), f))
       /\ scans' = scans + Passes(th.extent)
    /\ threads' = [threads EXCEPT ![t] = IdleThread]
    /\ UNCHANGED <<fig, hem, defaults, calls, calc>>
    /\ UNCHANGED <<upstream, mapsets, files, plot, artists, saved, remakes,
                   loaded, result, err, handles>>

\* the files after one of them is written anew
Written(fs, path, toks) ==
    [p \in DOMAIN fs \cup {path} |-> IF p = path THEN toks ELSE fs[p]]

\* an opening for reading that creates the file it does not find
OpenedCreating(fs, path) ==
    IF path \in DOMAIN fs THEN fs ELSE Written(fs, path, <<>>)

\* open(filename, 'rb'): the files are as they were
OpenedForRead(fs, path) == fs

\* open(filename, 'wb'): the file is created, or cut to nothing
OpenedForWrite(fs, path) == Written(fs, path, <<>>)

\* the count of open file objects after open() returned one more
Opened(hs) == hs + 1

\* a with statement that closes only when its body returned
WithExitOnReturn(hs, raised) == IF raised THEN hs ELSE hs - 1

\* the with statement's exit closes the file, whether its body returned or raised
WithExit(hs, raised) == hs - 1

\* mapset.save(filename)
Save(m, path) ==
    /\ files' = Written(OpenedForWrite(files, path), path, Dumps(mapsets[m], features))
    /\ saved' = [p \in DOMAIN saved \cup {path} |->
                    IF p = path THEN Graph(mapsets[m], features) ELSE saved[p]]
    /\ handles' = WithExit(Opened(handles), FALSE)
    /\ err' = ""
    /\ UNCHANGED <<fig, hem, defaults, calls, calc>>
    /\ UNCHANGED <<upstream, threads, loaded, features, mapsets, plot, artists, built,
                   scans, remakes, result>>

\* the points of the stream at which a write is made to fail
FailPoints(n) == {0, n \div 2, n - 1}

\* mapset.save(filename) whose pickle.dump raises after writing k opcodes
SaveFailing(m, path, k) ==
    /\ k < Len(Dumps(mapsets[m], features))
    /\ files' = Written(OpenedForWrite(files, path), path,
                        SubSeq(Dumps(mapsets[m], features), 1, k))
    /\ handles' = WithExit(Opened(handles), TRUE)
    /\ err' = "OSError"
    /\ UNCHANGED <<fig, hem, defaults, calls, calc>>
    /\ UNCHANGED <<upstream, threads, loaded, features, mapsets, plot, artists, built,
                   saved, scans, remakes, result>>

\* the stream ends before the machine has stopped
RanOutOfInput(toks) == ~Stopped(Run(toks, 1, Len(toks), <<>>))

\* MapSet.load(filename) of a file that exists
Load(path) ==
    /\ path \in DOMAIN files
    /\ Len(mapsets) < MaxMapSets
    /\ files' = OpenedForRead(files, path)
    /\ UNCHANGED <<fig, hem, defaults, calls, calc>>
    /\ UNCHANGED <<upstream, threads, plot, artists, built, saved, scans, remakes,
                   result>>
    /\ LET v == Loads(files[path]) IN
        /\ handles' = WithExit(Opened(handles), v.t = "error")
        /\ IF v.t = "obj" /\ v.s = "MapSet"
           THEN /\ features' = features \o LoadedFeatures(v)
                /\ mapsets' = Append(mapsets, ToMapSet(v, Len(features)))
                /\ loaded' = Len(mapsets) + 1
                /\ err' = ""
           ELSE /\ err' = IF v.t # "error" THEN ""
                           ELSE IF RanOutOfInput(files[path]) THEN "EOFError"
                           ELSE "UnpicklingError"
                /\ UNCHANGED <<features, mapsets, loaded>>

\* MapSet.load(filename) of a path where no file is
LoadMissing(path) ==
    /\ path \notin DOMAIN files
    /\ files' = OpenedForRead(files, path)
    /\ err' = "FileNotFoundError"
    /\ UNCHANGED <<fig, hem, defaults, calls, calc>>
    /\ UNCHANGED <<upstream, handles, threads, loaded, features, mapsets, plot,
                   artists, built, saved, scans, remakes, result>>

\* bytes that are no pickle
Garbage == <<Tok("?")>>

\* a well-formed pickle of another kind of object: pickle.dumps((1, 2))
OtherObject == DumpInts(<<1, 2>>) \o <<Tok("STOP")>>

\* the first half of the pickle of a MapSet without features
Truncated ==
    LET whole == Dumps([proj |-> "P", georange |-> ChinaCoast, scale |-> "50m",
                        coastline |-> NoRef, country |-> NoRef, province |-> NoRef],
                       <<>>) IN
    SubSeq(whole, 1, Len(whole) \div 2)

ForeignContents == {Garbage, OtherObject, Truncated}
ForeignPaths == {"foreign.pkl"}

\* a file that no save of a MapSet wrote is put at a path
PutFile(path, toks) ==
    /\ files' = Written(files, path, toks)
    /\ err' = ""
    /\ UNCHANGED <<fig, hem, defaults, calls, calc>>
    /\ UNCHANGED <<upstream, handles, threads, loaded, features, mapsets, plot,
                   artists, built, saved, scans, remakes, result>>

\* a restyling that builds the feature anew, without its geometries
StyledAnew(f, facecolor, edgecolor) ==
    [f EXCEPT !.geoms = <<>>,
              !.kwargs = [facecolor |-> facecolor, edgecolor |-> edgecolor]]

\* feature._kwargs.update(facecolor=facecolor, edgecolor=edgecolor)
Styled(f, facecolor, edgecolor) ==
    [f EXCEPT !.kwargs = [facecolor |-> facecolor, edgecolor |-> edgecolor]]

\* the classes of cartopy.crs that getattr(ccrs, self.proj) finds
CrsClasses == {"PlateCarree", "LambertConformal", "Miller", "Mercator",
               "NorthPolarStereo", "SouthPolarStereo", "Geostationary",
               "Robinson"}

\* proj.upper()
Upper(name) ==
    CASE name = "p"  -> "P"
      [] name = "n"  -> "N"
      [] name = "ml" -> "ML"
      [] name = "PlateCarree" -> "PLATECARREE"
      [] name = "Robinson"    -> "ROBINSON"
      [] name = "Stereo"      -> "STEREO"
      [] OTHER -> name

\* _projshort.get(proj.upper(), proj)
ProjShort(proj) ==
    LET up == Upper(proj) IN
    CASE up = "P"  -> "PlateCarree"
      [] up = "L"  -> "LambertConformal"
      [] up = "ML" -> "Miller"
      [] up = "M"  -> "Mercator"
      [] up = "N"  -> "NorthPolarStereo"
      [] up = "S"  -> "SouthPolarStereo"
      [] up = "G"  -> "Geostationary"
      [] OTHER     -> proj

\* _proj_dict.get(projection, None)
ProjDict(projection) ==
    CASE projection = "cyl"    -> "P"
      [] projection = "merc"   -> "M"
      [] projection = "lcc"    -> "L"
      [] projection = "geos"   -> "G"
      [] projection = "npaeqd" -> "N"
      [] projection = "spaeqd" -> "S"
      [] OTHER                 -> NoneStr

\* the georanges of the plot are kept in half degrees: chinamerc starts at
\* 72.5 east
Halves(georange) == [i \in DOMAIN georange |-> 2 * georange[i]]

\* what _from_map_key leaves in its locals proj and kwargs['georange']
Preset(proj, georange) == [bound |-> TRUE, proj |-> proj, georange |-> georange]

\* Plot._from_map_key(key); no branch but the last leaves proj and kwargs
\* unassigned
FromMapKey(key) ==
    CASE key = "chinaproper"  -> Preset("P", Halves(<<20, 40, 100, 130>>))
      [] key = "chinamerc"    -> Preset("M", <<30, 100, 145, 270>>)
      [] key = "chinalambert" -> Preset("L", Halves(<<15, 55, 80, 125>>))
      [] key = "euroasia"     -> Preset("L", Halves(<<5, 75, 55, 145>>))
      [] key = "europe"       -> Preset("ML", Halves(<<30, 70, -25, 45>>))
      [] key = "northpac"     -> Preset("L", Halves(<<-5, 70, 120, 250>>))
      [] key = "northamerica" -> Preset("L", Halves(<<5, 75, -145, -55>>))
      [] key = "northpolar"   -> Preset("N", Halves(<<15, 90, -180, 180>>))
      [] key = "southpolar"   -> Preset("S", Halves(<<-90, -15, -180, 180>>))
      [] OTHER -> [bound |-> FALSE, proj |-> NoneStr, georange |-> <<>>]

\* the default of setmap's parameter proj
DefaultProj == "ML"

\* the georange of a setmap call that is given none
WholeGlobe == <<-90, 90, -180, 180>>

\* the plot after setmap(key=key, proj=proj, projection=projection,
\* georange=georange), and the exception the call raised; NoneStr is an
\* argument that is None, <<>> a georange that is not given
AfterSetMap(p, key, proj, projection, georange) ==
    LET preset == FromMapKey(key)
        proj1  == IF key # NoneStr THEN preset.proj ELSE proj
        geo1   == IF key # NoneStr THEN preset.georange
                  ELSE IF georange = <<>> THEN Halves(WholeGlobe)
                  ELSE Halves(georange)
        lookup == proj1 = NoneStr /\ projection # NoneStr
        proj2  == IF lookup THEN ProjDict(projection) ELSE proj1
        name   == ProjShort(proj2) IN
    IF key # NoneStr /\ ~preset.bound
    THEN [plot |-> p, err |-> "UnboundLocalError"]
    ELSE IF lookup /\ proj2 = NoneStr
    THEN [plot |-> p, err |-> "PlotError"]
    ELSE IF proj2 = NoneStr
    THEN \* None.upper()
         [plot |-> [p EXCEPT !.georange = geo1], err |-> "AttributeError"]
    ELSE IF name \notin CrsClasses
    THEN \* getattr(ccrs, self.proj)
         [plot |-> [p EXCEPT !.georange = geo1, !.proj = name],
          err |-> "AttributeError"]
    ELSE [plot |-> [p EXCEPT !.georange = geo1, !.proj = name, !.ax = TRUE],
          err |-> ""]

\* plot.setmap(key=key, proj=proj, projection=projection, georange=georange)
SetMapCall(key, proj, projection, georange) ==
    /\ plot' = AfterSetMap(plot, key, proj, projection, georange).plot
    /\ err' = AfterSetMap(plot, key, proj, projection, georange).err
    /\ UNCHANGED <<fig, hem, defaults, calls, calc>>
    /\ UNCHANGED <<upstream, handles, threads, loaded, features, mapsets, files,
                   artists, built, saved, scans, remakes, result>>

\* plot.setmap(proj='P', georange=georange)
SetMap == SetMapCall(NoneStr, "P", NoneStr, ChinaCoast)

\* an item of a dict
Item(k, v) == [k |-> k, v |-> v]

\* the keys of a dict
Keys(d) == {d[i].k : i \in DOMAIN d}

\* d[k]
Get(d, k) == d[CHOOSE i \in DOMAIN d : d[i].k = k].v

\* d[k] = v
Put(d, k, v) ==
    IF k \in Keys(d)
    THEN [i \in DOMAIN d |-> IF d[i].k = k THEN Item(k, v) ELSE d[i]]
    ELSE Append(d, Item(k, v))

RECURSIVE MergeDictOverwriting(_, _)
\* a merge in which the values of b win
MergeDictOverwriting(a, b) ==
    IF b = <<>> THEN a
    ELSE MergeDictOverwriting(Put(a, Head(b).k, Head(b).v), Tail(b))

RECURSIVE MergeDict(_, _)
\* merge_dict(a, b): for k, v in b.items(): if k not in a: a[k] = v
MergeDict(a, b) ==
    IF b = <<>> THEN a
    ELSE MergeDict(IF Head(b).k \in Keys(a) THEN a
                   ELSE Put(a, Head(b).k, Head(b).v),
                   Tail(b))

\* merge_dict(a, b) on two new dicts, or on one new dict given twice: a is
\* changed in place and returned
CallMergeDict(a, b, same) ==
    /\ calc = NoCall
    /\ same => a = b
    /\ LET merged == MergeDict(a, b) IN
       calc' = [f |-> "merge_dict", args |-> <<a, b>>, value |-> merged,
                after |-> <<merged, IF same THEN merged ELSE b>>]
    /\ err' = ""
    /\ UNCHANGED <<upstream, features, mapsets, files, plot, artists, built,
                   saved, scans, remakes, loaded, result, handles, threads,
                   fig, hem, defaults, calls>>

\* merge_dict(a, b) once more on the dicts the last call left
MergeDictAgain ==
    /\ calc.f = "merge_dict"
    /\ LET a == calc.after[1]
           b == calc.after[2]
           merged == MergeDict(a, b) IN
       calc' = [f |-> "merge_dict", args |-> <<a, b>>, value |-> merged,
                after |-> <<merged, IF a = b THEN merged ELSE b>>]
    /\ err' = ""
    /\ UNCHANGED <<upstream, features, mapsets, files, plot, artists, built,
                   saved, scans, remakes, loaded, result, handles, threads,
                   fig, hem, defaults, calls>>

\* type.lower()
Lower(s) ==
    CASE s = "MAX"  -> "max"
      [] s = "Min"  -> "min"
      [] s = "MEAN" -> "mean"
      [] s = "Sum"  -> "sum"
      [] s = "Coastlines" -> "coastlines"
      [] s = "COUNTRY"    -> "country"
      [] s = "Bogus"      -> "bogus"
      [] OTHER -> s

RECURSIVE Largest(_)
Largest(data) ==
    IF Len(data) = 1 THEN data[1]
    ELSE LET rest == Largest(Tail(data)) IN
         IF data[1] > rest THEN data[1] ELSE rest

RECURSIVE Smallest(_)
Smallest(data) ==
    IF Len(data) = 1 THEN data[1]
    ELSE LET rest == Smallest(Tail(data)) IN
         IF data[1] < rest THEN data[1] ELSE rest

RECURSIVE Sum(_)
Sum(data) == IF data = <<>> THEN 0 ELSE data[1] + Sum(Tail(data))

\* the mean, in whole units
Mean(data) == Sum(data) \div Len(data)

\* the branches of maxminnote: typestr and notevalue, or no branch
NoteOf(type, data) ==
    LET t == Lower(type) IN
    CASE t = "max"  -> [typestr |-> "Max.", value |-> Largest(data)]
      [] t = "min"  -> [typestr |-> "Min.", value |-> Smallest(data)]
      [] t = "mean" -> [typestr |-> "Mean", value |-> Mean(data)]
      [] OTHER      -> [typestr |-> NoneStr, value |-> 0]

\* self.mmnote + ' | ' + notestr, or notestr when mmnote is ''
Noted(mmnote, name, note) ==
    Append(mmnote, [typestr |-> note.typestr, name |-> name, value |-> note.value])

\* the names of exception classes the modules define or import
ModuleNames ==
    [plotplus |-> {"PlotError"}, northhem |-> {}]

\* raise PlotError('Unsupported type!') in a module: the name is looked up
\* among the module's globals when the statement runs
RaisePlotError(module) ==
    IF "PlotError" \in ModuleNames[module] THEN "PlotError" ELSE "NameError"

\* plot.maxminnote(data, name, unit, type=type)
PlotMaxMinNote(data, name, type) ==
    /\ Len(plot.mmnote) < MaxNotes
    /\ LET note == NoteOf(type, data) IN
       IF note.typestr = NoneStr
       THEN plot' = plot /\ err' = RaisePlotError("plotplus")
       ELSE plot' = [plot EXCEPT !.mmnote = Noted(@, name, note)] /\ err' = ""
    /\ UNCHANGED <<upstream, features, mapsets, files, artists, built, saved,
                   scans, remakes, loaded, result, handles, threads, fig, hem,
                   defaults, calls, calc>>

\* n.maxminnote(data, name, unit, type=type)
HemMaxMinNote(h, data, name, type) ==
    /\ Len(hem[h].mmnote) < MaxNotes
    /\ LET note == NoteOf(type, data) IN
       IF note.typestr = NoneStr
       THEN hem' = hem /\ err' = RaisePlotError("northhem")
       ELSE hem' = [hem EXCEPT ![h].mmnote = Noted(@, name, note)] /\ err' = ""
    /\ UNCHANGED <<upstream, features, mapsets, files, plot, artists, built,
                   saved, scans, remakes, loaded, result, handles, threads,
                   fig, defaults, calls, calc>>

\* self.ax.text(x, y, s, ...): the texts of the axes with one more
Text(texts, kind, s) == Append(texts, [kind |-> kind, s |-> s])

\* the hours of a day of datetime
HoursPerDay == 24

\* (basetime + timedelta(hours=h)).hour for a basetime at hour basehour
HourOfDay(basehour, h) == (basehour + h) % HoursPerDay

\* the hour that is kept as it is
NearestHourUnrounded(hour, nearest) == hour

\* validtime.hour // nearest * nearest
NearestHour(hour, nearest) == (hour \div nearest) * nearest

\* a validity window, and one valid time
Window(fromhour, tohour) == [kind |-> "window", from |-> fromhour, to |-> tohour]
ValidAt(fcsthour) == [kind |-> "at", from |-> fcsthour, to |-> fcsthour]

\* what timestamp(basetime, fcsthour, duration, nearest) puts in its string
\* for an integer fcsthour; nearest = 0 stands for None too
TimestampOf(basehour, fcsthour, duration, nearest) ==
    IF duration # 0
    THEN IF duration > 0
         THEN Window(fcsthour, fcsthour + duration)
         ELSE Window(fcsthour + duration, fcsthour)
    ELSE IF nearest # 0
    THEN LET validhour == HourOfDay(basehour, fcsthour - 1)
             nearesthour == NearestHour(validhour, nearest) IN
         Window(fcsthour + nearesthour - validhour - 1, fcsthour)
    ELSE ValidAt(fcsthour)

\* plot.timestamp(basetime, fcsthour, duration, nearest), the first call of
\* a run: the string is made, then self.ax.text puts it on the axes
Timestamp(basehour, fcsthour, duration, nearest) ==
    /\ calc = NoCall
    /\ Len(fig.texts) < MaxTexts
    /\ calc' = [f |-> "timestamp",
                args |-> <<basehour, fcsthour, duration, nearest>>,
                value |-> TimestampOf(basehour, fcsthour, duration, nearest),
                after |-> <<>>]
    /\ IF plot.ax
       THEN /\ fig' = [fig EXCEPT !.texts = Text(@, "timestamp",
                            TimestampOf(basehour, fcsthour, duration, nearest))]
            /\ err' = ""
       ELSE fig' = fig /\ err' = "AttributeError"
    /\ UNCHANGED <<upstream, features, mapsets, files, plot, artists, built,
                   saved, scans, remakes, loaded, result, handles, threads,
                   hem, defaults, calls>>

\* n.setfontsize('clabel', size)
SetFontSize(h, size) ==
    /\ hem' = [hem EXCEPT ![h].clabel = size]
    /\ err' = ""
    /\ UNCHANGED <<upstream, features, mapsets, files, plot, artists, built,
                   saved, scans, remakes, loaded, result, handles, threads,
                   fig, defaults, calls, calc>>

\* vlinedict as contour uses it: merge_dict(vlinedict, {'color': color,
\* 'lw': lw})
VlineDict(vlinedict, color, lw) ==
    MergeDict(vlinedict, <<Item("color", color), Item("lw", lw)>>)

\* clabeldict as contour uses it: merge_dict(clabeldict, {'fmt': '%d',
\* 'fontsize': self.fontsize['clabel']})
ClabelDict(clabeldict, fontsize) ==
    MergeDict(clabeldict, <<Item("fmt", "%d"), Item("fontsize", fontsize)>>)

\* the Northhem after a contour call: the dict its labels were made with and
\* the dict its vline contours were set with
Contoured(n, cd, vd, color, lw, vline, clabel) ==
    [n EXCEPT !.styled = IF vline THEN VlineDict(vd, color, lw) ELSE @,
              !.labelled = IF clabel THEN ClabelDict(cd, n.clabel) ELSE @]

\* n.contour(x, y, data, clabel=clabel, color=color, lw=lw, vline=vline,
\* levels=levels): clabeldict and vlinedict are the dicts made when the
\* function was defined, and merge_dict changes them in place
Contour(h, color, lw, vline, clabel) ==
    /\ hem' = [hem EXCEPT ![h] =
            Contoured(@, defaults.clabeldict, defaults.vlinedict,
                      color, lw, vline, clabel)]
    /\ defaults' =
            [vlinedict |-> IF vline
                           THEN VlineDict(defaults.vlinedict, color, lw)
                           ELSE defaults.vlinedict,
             clabeldict |-> IF clabel
                            THEN ClabelDict(defaults.clabeldict, hem[h].clabel)
                            ELSE defaults.clabeldict]
    /\ err' = ""
    /\ UNCHANGED <<upstream, features, mapsets, files, plot, artists, built,
                   saved, scans, remakes, loaded, result, handles, threads,
                   fig, calls, calc>>

\* n.contour(..., clabeldict=cd, vlinedict=vd, ...) with dicts of the caller
ContourWith(h, color, lw, cd, vd) ==
    /\ hem' = [hem EXCEPT ![h] = Contoured(@, cd, vd, color, lw, TRUE, TRUE)]
    /\ err' = ""
    /\ UNCHANGED <<upstream, features, mapsets, files, plot, artists, built,
                   saved, scans, remakes, loaded, result, handles, threads,
                   fig, defaults, calls, calc>>

\* p = Plot(inside_axis=inside_axis): a new figure without axes; the plot
\* of the model is the new one
NewPlot(inside_axis) ==
    /\ plot' = NewPlotObject(inside_axis)
    /\ artists' = <<>>
    /\ fig' = NoArtists
    /\ calls' = <<>>
    /\ err' = ""
    /\ UNCHANGED <<upstream, features, mapsets, files, built, saved, scans,
                   remakes, loaded, result, handles, threads, hem, defaults,
                   calc>>

\* plot.title(s)
Title(s) ==
    /\ Len(fig.texts) < MaxTexts
    /\ IF plot.ax
       THEN fig' = [fig EXCEPT !.texts = Text(@, "title", s)] /\ err' = ""
       ELSE fig' = fig /\ err' = "AttributeError"
    /\ UNCHANGED <<upstream, features, mapsets, files, plot, artists, built,
                   saved, scans, remakes, loaded, result, handles, threads,
                   hem, defaults, calls, calc>>

\* self._colorbar_unit(s)
ColorbarUnit(texts, s) == IF s = "" THEN texts ELSE Text(texts, "unit", s)

\* plot.colorbar(mappable, unit=unit, orientation=orientation)
Colorbar(unit, orientation) ==
    /\ Len(fig.texts) < MaxTexts
    /\ fig.caxes < MaxColorbars
    /\ IF plot.ax
       THEN /\ fig' = [texts |-> IF orientation = "horizontal" THEN fig.texts
                                 ELSE ColorbarUnit(fig.texts, unit),
                       caxes |-> fig.caxes + 1]
            /\ err' = ""
       ELSE fig' = fig /\ err' = "AttributeError"
    /\ UNCHANGED <<upstream, features, mapsets, files, plot, artists, built,
                   saved, scans, remakes, loaded, result, handles, threads,
                   hem, defaults, calls, calc>>

\* plot.setxy(lons, lats, georange, res)
SetXY ==
    /\ plot' = [plot EXCEPT !.xy = TRUE]
    /\ err' = ""
    /\ UNCHANGED <<fig, hem, defaults, calls, calc>>
    /\ UNCHANGED <<upstream, handles, threads, loaded, features, mapsets, files,
                   artists, built, saved, scans, remakes, result>>

\* plot.usemapset(mapset)
UseMapSet(m) ==
    /\ LET p == [plot EXCEPT !.mapset = m] IN
       IF ~plot.ax /\ mapsets[m].proj # NoneStr
       THEN LET r == AfterSetMap(p, NoneStr, mapsets[m].proj, NoneStr,
                                mapsets[m].georange) IN
            plot' = r.plot /\ err' = r.err
       ELSE plot' = p /\ err' = ""
    /\ UNCHANGED <<fig, hem, defaults, calls, calc>>
    /\ UNCHANGED <<upstream, handles, threads, loaded, features, mapsets, files,
                   artists, built, saved, scans, remakes, result>>

\* plot.usefeature(feature, facecolor=facecolor, edgecolor=edgecolor)
UseFeature(i, facecolor, edgecolor) ==
    /\ Len(artists) < MaxArtists
    /\ features' = [features EXCEPT ![i] = Styled(@, facecolor, edgecolor)]
    /\ IF plot.ax
       THEN artists' = Append(artists, i) /\ err' = ""
       ELSE artists' = artists /\ err' = "AttributeError"
    /\ UNCHANGED <<fig, hem, defaults, calls, calc>>
    /\ UNCHANGED <<upstream, handles, threads, loaded, mapsets, files, plot,
                   built, saved, scans, remakes, result>>

LineColor(color) == IF color = NoneStr THEN Black ELSE color

\* plot.drawcoastline(color_coast=color)
DrawCoastline(color) ==
    /\ Len(artists) < MaxArtists
    /\ IF ~plot.ax
       THEN \* self.scale is set by setmap only
            /\ err' = "AttributeError"
            /\ UNCHANGED <<features, artists>>
       ELSE IF plot.mapset # NoRef /\ mapsets[plot.mapset].coastline # NoRef
       THEN \* the coastline is added, then self.mapset.lakes is read
            LET i == mapsets[plot.mapset].coastline IN
            /\ features' = [features EXCEPT ![i] = Styled(@, "none", LineColor(color))]
            /\ artists' = Append(artists, i)
            /\ err' = "AttributeError"
       ELSE /\ err' = ""
            /\ UNCHANGED <<features, artists>>
    /\ UNCHANGED <<fig, hem, defaults, calls, calc>>
    /\ UNCHANGED <<upstream, handles, threads, loaded, mapsets, files, plot,
                   built, saved, scans, remakes, result>>

\* plot.drawcountry(color=color)
DrawCountry(color) ==
    /\ Len(artists) < MaxArtists
    /\ IF ~plot.ax
       THEN /\ err' = "AttributeError"
            /\ UNCHANGED <<features, artists>>
       ELSE IF plot.mapset # NoRef /\ mapsets[plot.mapset].country # NoRef
       THEN LET i == mapsets[plot.mapset].country IN
            /\ features' = [features EXCEPT ![i] = Styled(@, "none", LineColor(color))]
            /\ artists' = Append(artists, i)
            /\ err' = ""
       ELSE /\ err' = ""
            /\ UNCHANGED <<features, artists>>
    /\ UNCHANGED <<fig, hem, defaults, calls, calc>>
    /\ UNCHANGED <<upstream, handles, threads, loaded, mapsets, files, plot,
                   built, saved, scans, remakes, result>>

\* plot.drawprovince(color=color); the city and county layers it may go on to
\* draw are read from shapefiles, not from the mapset
DrawProvince(color) ==
    /\ Len(artists) < MaxArtists
    /\ IF plot.mapset # NoRef /\ mapsets[plot.mapset].province # NoRef
       THEN LET i == mapsets[plot.mapset].province IN
            /\ features' = [features EXCEPT ![i] = Styled(@, "none", LineColor(color))]
            /\ artists' = IF plot.ax THEN Append(artists, i) ELSE artists
       ELSE UNCHANGED <<features, artists>>
    /\ err' = IF ~plot.ax \/ ~plot.xy THEN "AttributeError" ELSE ""
    /\ UNCHANGED <<fig, hem, defaults, calls, calc>>
    /\ UNCHANGED <<upstream, handles, threads, loaded, mapsets, files, plot,
                   built, saved, scans, remakes, result>>

\* a command string is the sequence of its words and of the spaces between
\* them; cmd.lower()
LowerCmd(cmd) == [i \in DOMAIN cmd |-> Lower(cmd[i])]

\* ' ' in cmd
HasSpace(cmd) == \E i \in DOMAIN cmd : cmd[i] = " "

\* cmd.split(): the words between the spaces
Split(cmd) == SelectSeq(cmd, LAMBDA piece : piece # " ")

\* the method the if/elif chain of draw has for a command without spaces
MethodOf(c) ==
    CASE c \in {<<"coastline">>, <<"coastlines">>} -> "drawcoastline"
      [] c \in {<<"country">>, <<"countries">>}     -> "drawcountry"
      [] c \in {<<"province">>, <<"provinces">>}    -> "drawprovince"
      [] c \in {<<"city">>, <<"cities">>}           -> "drawcity"
      [] c \in {<<"county">>, <<"counties">>}       -> "drawcounty"
      [] c \in {<<"parameri">>, <<"meripara">>}     -> "drawparameri"
      [] OTHER -> "print"

\* the cached feature a draw method takes from the mapset in use, if any
CachedLayer(method) ==
    IF plot.mapset = NoRef THEN NoRef
    ELSE CASE method = "drawcoastline" -> mapsets[plot.mapset].coastline
           [] method = "drawcountry"   -> mapsets[plot.mapset].country
           [] method = "drawprovince"  -> mapsets[plot.mapset].province
           [] OTHER -> NoRef

\* the exception a draw method called without arguments ends with, "" when
\* it returns: coastline and country read self.scale, city and county
\* self.ax, province self.ax and the grid of setxy in stepcal, parameri
\* self.ax and self.lonmin (no_parameri is False unless setmap was given a
\* map key); coastline reads self.mapset.lakes after it added a cached
\* coastline.  The layers read from the shapefiles and the gridlines are not
\* among the artists followed here
Raised(method) ==
    CASE method = "print" -> ""
      [] method = "drawcoastline" ->
            IF ~plot.ax \/ CachedLayer(method) # NoRef
            THEN "AttributeError" ELSE ""
      [] method \in {"drawprovince", "drawparameri"} ->
            IF ~plot.ax \/ ~plot.xy THEN "AttributeError" ELSE ""
      [] OTHER -> IF ~plot.ax THEN "AttributeError" ELSE ""

\* the features, artists, calls and exception after draw went into one
\* method, or printed 'Illegal draw command'
Invoked(st, method) ==
    LET i == CachedLayer(method)
        styles == i # NoRef /\ (plot.ax \/ method = "drawprovince") IN
    [features |-> IF styles
                  THEN [st.features EXCEPT ![i] = Styled(@, "none", Black)]
                  ELSE st.features,
     artists |-> IF i # NoRef /\ plot.ax THEN Append(st.artists, i)
                 ELSE st.artists,
     calls |-> Append(st.calls, method),
     err |-> Raised(method)]

\* for c in cmd.split(): self.draw(c), until a method raises
RECURSIVE DrawEach(_, _)
DrawEach(tokens, st) ==
    IF tokens = <<>> \/ st.err # "" THEN st
    ELSE DrawEach(Tail(tokens), Invoked(st, MethodOf(<<Head(tokens)>>)))

\* the state after draw(cmd)
Drawn(cmd) ==
    LET c == LowerCmd(cmd)
        st == [features |-> features, artists |-> artists, calls |-> <<>>,
               err |-> ""] IN
    IF HasSpace(c) THEN DrawEach(Split(c), st) ELSE Invoked(st, MethodOf(c))

\* plot.draw(cmd)
Draw(cmd) ==
    /\ Len(Drawn(cmd).artists) <= MaxArtists
    /\ features' = Drawn(cmd).features
    /\ artists' = Drawn(cmd).artists
    /\ calls' = Drawn(cmd).calls
    /\ err' = Drawn(cmd).err
    /\ UNCHANGED <<upstream, mapsets, files, plot, built, saved, scans,
                   remakes, loaded, result, handles, threads, fig, hem,
                   defaults, calc>>

\* the passes over the collections that drawing the artists takes
RECURSIVE DrawPasses(_, _)
DrawPasses(as, extent) ==
    IF as = <<>> THEN 0
    ELSE IntersectingGeometries(features[Head(as)], extent).passes
            + DrawPasses(Tail(as), extent)

\* plot.save(path): the figure is drawn, every FeatureArtist asks its feature
\* for the geometries intersecting the axes' extent
SaveFig(extent) ==
    /\ IF plot.ax
       THEN scans' = scans + DrawPasses(artists, extent) /\ err' = ""
       ELSE scans' = scans /\ err' = "AttributeError"
    /\ UNCHANGED <<fig, hem, defaults, calls, calc>>
    /\ UNCHANGED <<upstream, handles, threads, loaded, features, mapsets, files,
                   plot, artists, built, saved, remakes, result>>

Colors == {NoneStr, "red"}
CacheGeoranges == { ChinaCoast, DateLine, InvertedLat }

\* building, rebuilding and querying features over every georange
NextBuild ==
    \/ \E s \in NESources, g \in Georanges : BuildNE(s, g)
    \/ \E s \in ShpSources, g \in Georanges : BuildShp(s, g)
    \/ \E i \in 1..Len(features) : MakePartial(i)
    \/ \E i \in 1..Len(features) : CallGeometries(i)
    \/ \E i \in 1..Len(features), e \in QueryExtents : CallIntersecting(i, e)

SpecBuild == Init /\ [][NextBuild]_vars

\* mapsets and their cache files
NextCache ==
    \/ \E s \in ShpSources, g \in CacheGeoranges : BuildShp(s, g)
    \/ \E c \in BOOLEAN : FromNaturalEarth(DateLine, c, TRUE)
    \/ \E p \in 1..Len(features) : NewMapSet(NoneStr, ChinaCoast, NoRef, NoRef, p)
    \/ \E i \in 1..Len(features) : MakePartial(i)
    \/ \E m \in 1..Len(mapsets), path \in Paths : Save(m, path)
    \/ \E path \in Paths : Load(path)

SpecCache == Init /\ [][NextCache]_vars

\* rendering cached features
NextRender ==
    \/ \E s \in ShpSources : BuildShp(s, DateLine)
    \/ \E c \in BOOLEAN : FromNaturalEarth(ChinaCoast, c, TRUE)
    \/ \E p \in 1..Len(features) : NewMapSet(NoneStr, ChinaCoast, NoRef, NoRef, p)
    \/ SetMap
    \/ SetXY
    \/ \E m \in 1..Len(mapsets) : UseMapSet(m)
    \/ \E i \in 1..Len(features) : UseFeature(i, NoneStr, NoneStr)
    \/ \E color \in Colors : DrawCoastline(color)
    \/ DrawCountry(NoneStr)
    \/ DrawProvince(NoneStr)
    \/ \E i \in 1..Len(features) : CallGeometries(i)
    \/ \E i \in 1..Len(features), e \in QueryExtents : CallIntersecting(i, e)
    \/ \E e \in QueryExtents : SaveFig(e)
    \/ \E m \in 1..Len(mapsets), path \in Paths : Save(m, path)

SpecRender == Init /\ [][NextRender]_vars

\* builds from sources that are missing, saves that fail, files that are no
\* cache, loads of them
NextFaults ==
    \/ \E s \in {Coastline, Atlantis} : BuildNE(s, ChinaCoast)
    \/ \E s \in {ShpFile, NoShpFile} : BuildShp(s, DateLine)
    \/ \E p \in 1..Len(features) : NewMapSet(NoneStr, ChinaCoast, NoRef, NoRef, p)
    \/ \E m \in 1..Len(mapsets), path \in Paths : Save(m, path)
    \/ \E m \in 1..Len(mapsets), path \in Paths :
            \E k \in FailPoints(Len(Dumps(mapsets[m], features))) :
                SaveFailing(m, path, k)
    \/ \E path \in ForeignPaths, toks \in ForeignContents : PutFile(path, toks)
    \/ \E path \in Paths \cup ForeignPaths : Load(path)
    \/ \E path \in Paths \cup ForeignPaths : LoadMissing(path)

SpecFaults == Init /\ [][NextFaults]_vars

ThreadGeoranges == { ChinaCoast, DateLine }

\* threads that construct features at the same time
NextThreads ==
    \/ \E t \in Threads, s \in NESources, g \in ThreadGeoranges : T_Init(t, s, g)
    \/ \E t \in Threads : T_Read(t)
    \/ \E t \in Threads : T_Pass1(t)
    \/ \E t \in Threads : T_Pass2(t)
    \/ \E t \in Threads : T_Return(t)

SpecThreads == Init /\ [][NextThreads]_vars

\* the keys the docstring of setmap lists
DocKeys == {"chinaproper", "chinamerc", "chinalambert", "euroasia", "europe",
            "northamerica", "northpole"}
\* the keys _from_map_key has a branch for
CodeKeys == {"chinaproper", "chinamerc", "chinalambert", "euroasia", "europe",
             "northpac", "northamerica", "northpolar", "southpolar"}
\* Basemap-style names: the ones of the error message, the one more of
\* _proj_dict, the docstring's spelling, and two names of no table
BasemapNames == {"cyl", "merc", "lcc", "geos", "npaeqd", "spaeqd", "npaepd",
                 "ortho", "mill"}
ProjNames == {"P", "n", "G", "PlateCarree", "Robinson", "Stereo"}
MapGeoranges == {<<>>, ChinaCoast, DateLine}

\* setmap by key, by projection, by proj, and with nothing to choose from
NextMap ==
    \/ \E key \in DocKeys \cup CodeKeys, g \in MapGeoranges :
            SetMapCall(key, DefaultProj, NoneStr, g)
    \/ \E projection \in BasemapNames, g \in MapGeoranges :
            SetMapCall(NoneStr, DefaultProj, projection, g)
    \/ \E projection \in BasemapNames, g \in MapGeoranges :
            SetMapCall(NoneStr, NoneStr, projection, g)
    \/ \E proj \in ProjNames, g \in MapGeoranges :
            SetMapCall(NoneStr, proj, NoneStr, g)
    \/ \E g \in MapGeoranges : SetMapCall(NoneStr, NoneStr, NoneStr, g)
    \/ SetXY

SpecMap == Init /\ [][NextMap]_vars

Titles == {"500hPa Height", "MSLP"}
Units == {"", "hPa"}
Orientations == {"vertical", "horizontal"}

\* plots made with and without inside_axis, their titles and colorbars
NextFigure ==
    \/ \E b \in BOOLEAN : NewPlot(b)
    \/ SetMap
    \/ \E s \in Titles : Title(s)
    \/ \E u \in Units, o \in Orientations : Colorbar(u, o)

SpecFigure == Init /\ [][NextFigure]_vars

DictKeys == {"color", "lw", "fmt"}
DictValues == {"k", "w"}

\* the dicts of at most n items over the keys and values
RECURSIVE DictsUpTo(_)
DictsUpTo(n) ==
    IF n = 0 THEN {EmptyDict}
    ELSE LET smaller == DictsUpTo(n - 1) IN
         smaller \cup {Append(d, Item(k, v)) :
                          d \in {s \in smaller : Len(s) = n - 1},
                          k \in DictKeys, v \in DictValues}
Dicts == {d \in DictsUpTo(MaxKeys) : Cardinality(Keys(d)) = Len(d)}

\* merges of dicts
NextMerge ==
    \/ \E a, b \in Dicts : CallMergeDict(a, b, FALSE)
    \/ \E a \in Dicts : CallMergeDict(a, a, TRUE)
    \/ MergeDictAgain

SpecMerge == Init /\ [][NextMerge]_vars

FontSizes == {"5", "8"}
\* the color and lw of a contour call: the defaults and another pair
LineStyles == {[color |-> "k", lw |-> "0.5"], [color |-> "r", lw |-> "1"]}

\* contours on two Northhem objects
NextContour ==
    \/ \E h \in Hems, size \in FontSizes : SetFontSize(h, size)
    \/ \E h \in Hems, ls \in LineStyles, vline \in BOOLEAN, clabel \in BOOLEAN :
            Contour(h, ls.color, ls.lw, vline, clabel)
    \/ \E h \in Hems :
            ContourWith(h, "k", "0.5", <<Item("fontsize", "6")>>,
                        <<Item("color", "b")>>)

SpecContour == Init /\ [][NextContour]_vars

NoteTypes == {"max", "Min", "MEAN"}
OtherTypes == {"Sum", "median"}
NoteData == {<<3, 9, 4>>}

\* notes on the plot and on the Northhem objects
NextNotes ==
    \/ \E d \in NoteData, t \in NoteTypes : PlotMaxMinNote(d, "T2m", t)
    \/ \E d \in NoteData, t \in OtherTypes : PlotMaxMinNote(d, "T2m", t)
    \/ \E h \in Hems, d \in NoteData, t \in NoteTypes : HemMaxMinNote(h, d, "T2m", t)
    \/ \E h \in Hems, d \in NoteData, t \in OtherTypes : HemMaxMinNote(h, d, "T2m", t)

SpecNotes == Init /\ [][NextNotes]_vars

BaseHours == 0..(HoursPerDay - 1)
FcstHours == {-3, 0, 1, 6, 25}
Durations == {-24, -6, 3, 24}
Nearests == {1, 3, 6, 12, 24, 30}

\* timestamps with a duration, with a nearest, and with neither
NextTime ==
    \/ SetMap
    \/ \E b \in BaseHours, f \in FcstHours, d \in Durations, n \in Nearests \cup {0} :
            Timestamp(b, f, d, n)
    \/ \E b \in BaseHours, f \in FcstHours, n \in Nearests : Timestamp(b, f, 0, n)
    \/ \E b \in BaseHours, f \in FcstHours : Timestamp(b, f, 0, 0)

SpecTime == Init /\ [][NextTime]_vars

Commands == { <<"coastline">>, <<"Coastlines", " ", "COUNTRY">>,
              <<"country", " ", " ", "Bogus", " ", "province">>,
              <<"Bogus">>, <<"city", " ", "county", " ", "parameri">>,
              <<" ", "meripara">>, <<>>, <<" ">> }

\* draw commands on plots with and without a mapset
NextDraw ==
    \/ \E c \in BOOLEAN : FromNaturalEarth(ChinaCoast, c, TRUE)
    \/ \E p \in 1..Len(features) : NewMapSet(NoneStr, ChinaCoast, NoRef, NoRef, p)
    \/ SetMap
    \/ SetXY
    \/ \E m \in 1..Len(mapsets) : UseMapSet(m)
    \/ \E cmd \in Commands : Draw(cmd)

SpecDraw == Init /\ [][NextDraw]_vars

----------------------------------------------------------------------------
(* Properties *)

\* x lies between the bounds a and b
Between(a, b, x) == (a <= x /\ x <= b) \/ (b <= x /\ x <= a)

\* the geometry g has a point in the rectangle lon1..lon2 by lat1..lat2
Meets(g, lon1, lon2, lat1, lat2) ==
    \E k \in DOMAIN g : Between(lon1, lon2, g[k][1]) /\ Between(lat1, lat2, g[k][2])

LatMin(georange) == georange[1]
LatMax(georange) == georange[2]
LonMin(georange) == georange[3]
LonMax(georange) == georange[4]

ValidRegion(georange) ==
    LatMin(georange) < LatMax(georange) /\ LonMin(georange) < LonMax(georange)

StraddlingRegion(georange) == LonMin(georange) < 180 /\ 180 < LonMax(georange)

MeetsRegion(g, r) == Meets(g, LonMin(r), LonMax(r), LatMin(r), LatMax(r))
MeetsEastHalf(g, r) == Meets(g, LonMin(r), 180, LatMin(r), LatMax(r))
MeetsWestHalf(g, r) == Meets(g, -180, LonMax(r) - 360, LatMin(r), LatMax(r))

\* the k-th smallest member of a set of indices
Kth(I, k) == CHOOSE i \in I : Cardinality({j \in I : j <= i}) = k

\* seq lists exactly the members of up at the indices I, in increasing index order
ListsInOrder(seq, up, I) ==
    /\ Len(seq) = Cardinality(I)
    /\ \A k \in 1..Len(seq) : seq[k] = up[Kth(I, k)]

Count(g, seq) == Cardinality({k \in DOMAIN seq : seq[k] = g})

Range(seq) == {seq[k] : k \in DOMAIN seq}

\* C1: a build over a region that does not straddle the antimeridian stores
\* exactly the geometries of the upstream collection that have a point in the
\* region, in upstream order: every one that meets the region, none that lies
\* entirely outside it.
C1_PlainBuildStoresIntersecting ==
    \A n \in DOMAIN built :
        LET b == built[n]
            up == upstream[b.source] IN
        ~StraddlingRegion(b.georange) =>
            ListsInOrder(b.geoms, up,
                {i \in DOMAIN up : MeetsRegion(up[i], b.georange)})

\* a plain build that kept several geometries and left some out
C1_Witness ==
    \E n \in DOMAIN built :
        /\ ~StraddlingRegion(built[n].georange)
        /\ ValidRegion(built[n].georange)
        /\ Len(built[n].geoms) >= 2
        /\ Len(built[n].geoms) < Len(upstream[built[n].source])

\* C2: a build over a region with lonMin < 180 < lonMax stores the upstream
\* geometries meeting [lonMin, 180], in upstream order, followed by the upstream
\* geometries meeting [-180, lonMax - 360], in upstream order, both halves
\* with the region's latitude bounds.
C2_StraddlingBuildConcatenatesHalves ==
    \A n \in DOMAIN built :
        LET b == built[n]
            up == upstream[b.source]
            east == {i \in DOMAIN up : MeetsEastHalf(up[i], b.georange)}
            west == {i \in DOMAIN up : MeetsWestHalf(up[i], b.georange)} IN
        StraddlingRegion(b.georange) =>
            /\ Len(b.geoms) = Cardinality(east) + Cardinality(west)
            /\ ListsInOrder(SubSeq(b.geoms, 1, Cardinality(east)), up, east)
            /\ ListsInOrder(SubSeq(b.geoms, Cardinality(east) + 1, Len(b.geoms)), up, west)

\* a build over lon 170..200, lat 0..30 whose two halves both matched
\* something, one geometry only east and one only west of the antimeridian
C2_Witness ==
    \E n \in DOMAIN built :
        /\ built[n].georange = DateLine
        /\ \E g \in Range(built[n].geoms) :
                MeetsEastHalf(g, DateLine) /\ ~MeetsWestHalf(g, DateLine)
        /\ \E g \in Range(built[n].geoms) :
                MeetsWestHalf(g, DateLine) /\ ~MeetsEastHalf(g, DateLine)
        /\ Len(built[n].geoms) < Len(upstream[built[n].source])

\* the georange a feature's extent was made from
RegionOf(f) == SubSeq(f.extent, 3, 4) \o SubSeq(f.extent, 1, 2)

\* C3: in every state, every geometry a feature holds has a point in the
\* feature's region, or, when the region straddles the antimeridian, in one of
\* its two halves; after builds over any region, rebuilds, saves and loads.
C3_StoredGeometriesMeetRegion ==
    \A i \in DOMAIN features :
        LET r == RegionOf(features[i]) IN
        \A g \in Range(features[i].geoms) :
            IF StraddlingRegion(r)
            THEN MeetsEastHalf(g, r) \/ MeetsWestHalf(g, r)
            ELSE MeetsRegion(g, r)

\* after a rebuild and a load, a feature over a straddling region and one over
\* a plain region both hold geometries, and the second of two features is one
\* read from a file
C3_Witness ==
    /\ remakes > 0
    /\ loaded # NoRef
    /\ \E i \in DOMAIN features :
            StraddlingRegion(RegionOf(features[i])) /\ Len(features[i].geoms) >= 2
    /\ \E i \in DOMAIN features :
            ~StraddlingRegion(RegionOf(features[i])) /\ features[i].geoms # <<>>

\* C4: the sequence a build stores holds no geometry more often than the
\* upstream collection does, also when the geometry touches both halves of a
\* straddling region.
C4_NoSplitDuplicates ==
    \A n \in DOMAIN built :
        \A g \in Range(built[n].geoms) :
            Count(g, built[n].geoms) <= Count(g, upstream[built[n].source])

\* C5: a build over a straddling region stores a geometry once for each half
\* it meets: twice when it meets both, once when it meets one.
C5_StraddlingBuildCountsPerHalf ==
    \A n \in DOMAIN built :
        LET b == built[n]
            up == upstream[b.source] IN
        StraddlingRegion(b.georange) =>
            \A g \in Range(up) :
                Count(g, b.geoms) =
                    Count(g, up) * ((IF MeetsEastHalf(g, b.georange) THEN 1 ELSE 0)
                                    + (IF MeetsWestHalf(g, b.georange) THEN 1 ELSE 0))

\* a straddling build that stored one geometry twice and another once
C5_Witness ==
    \E n \in DOMAIN built :
        /\ StraddlingRegion(built[n].georange)
        /\ ValidRegion(built[n].georange)
        /\ \E g \in Range(built[n].geoms) : Count(g, built[n].geoms) = 2
        /\ \E g \in Range(built[n].geoms) : Count(g, built[n].geoms) = 1

\* C6: a load of a file answers a mapset equal, with the features it refers
\* to, to the mapset that was saved to the file: the same georange, and for
\* each feature the same extent, source and geometry sequence in order.
C6_LoadReturnsWhatWasSaved ==
    [][\A path \in Paths :
            Load(path) =>
                /\ err' = ""
                /\ Len(mapsets') = Len(mapsets) + 1
                /\ Graph(mapsets'[Len(mapsets')], features') = saved[path]]_vars

\* a mapset read from a file whose coastline and country features hold
\* different sequences of several geometries over a valid region
C6_Witness ==
    /\ loaded # NoRef
    /\ LET m == mapsets[loaded] IN
        /\ m.coastline # NoRef
        /\ m.country # NoRef
        /\ ValidRegion(m.georange)
        /\ Len(features[m.coastline].geoms) >= 2
        /\ Len(features[m.country].geoms) >= 2
        /\ features[m.coastline].geoms # features[m.country].geoms
        /\ Graph(m, features) = saved["cache.pkl"]

\* a step of a render operation
RenderStep ==
    \/ \E i \in 1..Len(features) : UseFeature(i, NoneStr, NoneStr)
    \/ \E color \in Colors : DrawCoastline(color)
    \/ DrawCountry(NoneStr)
    \/ DrawProvince(NoneStr)
    \/ \E e \in QueryExtents : SaveFig(e)

\* a step of a query
QueryStep ==
    \/ \E i \in 1..Len(features) : CallGeometries(i)
    \/ \E i \in 1..Len(features), e \in QueryExtents : CallIntersecting(i, e)

\* a step of mapset.save
SaveStep == \E m \in 1..Len(mapsets), path \in Paths : Save(m, path)

\* C7: geometries() and intersecting_geometries(extent), for every extent,
\* answer the feature's stored sequence, raise nothing, leave every feature as
\* it is and take no pass over a collection; no render operation takes one.
C7_QueryAnswersStoredSequence ==
    [][/\ \A i \in 1..Len(features) :
            /\ CallGeometries(i) => result' = features[i].geoms
            /\ \A e \in QueryExtents :
                    CallIntersecting(i, e) => result' = features[i].geoms
       /\ QueryStep => (err' = "" /\ features' = features /\ scans' = scans)
       /\ RenderStep => scans' = scans]_vars

\* a query has answered several geometries of a feature that is drawn on the
\* axes, where the asked extent lies apart from some of them
C7_Witness ==
    /\ plot.ax
    /\ \E k \in DOMAIN artists :
            /\ result = features[artists[k]].geoms
            /\ Len(result) >= 2
            /\ \E e \in QueryExtents :
                    BaseIntersectingGeometries(result, e) # result

C10_InvalidRegionRejected ==
    \A n \in DOMAIN built : ValidRegion(built[n].georange)

\* a step of a build from a source that has no file
UnknownSourceStep ==
    \/ \E g \in Georanges : BuildNE(Atlantis, g)
    \/ \E g \in Georanges : BuildShp(NoShpFile, g)

HoldsMapSet(toks) == Loads(toks).t = "obj" /\ Loads(toks).s = "MapSet"

AllPaths == Paths \cup ForeignPaths

\* C12: a load of a file that does not hold the pickle of a MapSet (garbage,
\* a cut-off pickle, the pickle of another kind of object) raises an error and
\* answers no object.
C12_CorruptCacheRaised ==
    [][\A path \in AllPaths :
            (Load(path) /\ ~HoldsMapSet(files[path])) =>
                (err' # "" /\ loaded' = loaded)]_vars

\* every variable but err
AllButErr ==
    <<upstream, features, mapsets, files, plot, artists, built, saved, scans,
      fig, hem, defaults, calls, calc,
      remakes, loaded, result, handles, threads>>

\* C13: a load of a path where no file is raises FileNotFoundError, creates no
\* file and changes nothing else.
C13_MissingFileNotFound ==
    [][\A path \in AllPaths :
            LoadMissing(path) =>
                (err' = "FileNotFoundError" /\ UNCHANGED AllButErr)]_vars

\* a load has just failed for want of a file, next to a cache file that is there
C13_Witness ==
    /\ err = "FileNotFoundError"
    /\ DOMAIN files # {}
    /\ AllPaths \ DOMAIN files # {}

\* C14: whatever saves have failed, every file found at a path that a save
\* wrote to holds the whole pickle of a MapSet.
C14_SaveIsAtomic ==
    \A path \in Paths \cap DOMAIN files : HoldsMapSet(files[path])

\* C15: between calls no file object is open, whether the saves and loads made
\* so far returned or raised.
C15_HandlesReleased == handles = 0

\* a load has just failed on a file that a failing save left cut off
C15_Witness ==
    /\ err \in {"EOFError", "UnpicklingError"}
    /\ \E path \in Paths \cap DOMAIN files : ~HoldsMapSet(files[path])
    /\ handles = 0


\* C16: a build never changes the upstream collection: after any number of
\* builds and rebuilds, over regions that straddle 180 and regions that do
\* not, every upstream collection holds the geometries it held at the start,
\* in the same order.
C16_UpstreamNeverMutated == upstream = World

\* a straddling build and a plain build are done, one of them was rebuilt,
\* and both stored something less than the collection they read
C16_Witness ==
    /\ remakes > 0
    /\ \E m, n \in DOMAIN built :
        /\ Straddles(ExtentOf(built[m].georange))
        /\ ~Straddles(ExtentOf(built[n].georange))
        /\ built[m].geoms # <<>>
        /\ built[n].geoms # <<>>
        /\ Len(built[m].geoms) < Len(World[built[m].source])
        /\ Len(built[n].geoms) < Len(World[built[n].source])


\* C17: features built at the same time by several threads from the same
\* unchanged upstream collections share nothing that changes: under every
\* interleaving of the constructors' steps, what a constructor has stored
\* when it is done, and what it returns, is what the same call stores when it
\* runs alone.
C17_ConcurrentBuildsAsAlone ==
    /\ \A t \in Threads : threads[t].pc = "done" =>
            threads[t].geoms
                = NewNE(threads[t].source, GeorangeOf(threads[t].extent)).geoms
    /\ \A n \in DOMAIN built :
            built[n].geoms = NewNE(built[n].source, built[n].georange).geoms

\* two constructors are done at the same time, with different results, and
\* one of them made a pass while the other was between its read and its
\* last pass
C17_Witness ==
    \E t, u \in Threads :
        /\ t # u
        /\ threads[t].pc = "done" /\ threads[u].pc = "done"
        /\ threads[t].raced
        /\ Straddles(threads[t].extent)
        /\ threads[t].geoms # <<>> /\ threads[u].geoms # <<>>
        /\ threads[t].geoms # threads[u].geoms


\* a step of plot.drawcoastline() on axes that exist, after plot.usemapset of
\* a mapset that holds a cached coastline
MapSetCoastlineStep ==
    /\ plot.ax
    /\ plot.mapset # NoRef
    /\ mapsets[plot.mapset].coastline # NoRef
    /\ \E color \in Colors : DrawCoastline(color)

\* C18: after plot.usemapset(mapset) of a mapset whose coastline is a cached
\* feature, every plot.drawcoastline() adds that feature to the axes and
\* returns without an error.
C18_MapSetWorkflowCompletes ==
    [][MapSetCoastlineStep =>
        /\ err' = ""
        /\ artists' = Append(artists, mapsets[plot.mapset].coastline)]_vars


\* a step of plot.setmap(key=key), with or without a georange
KeyStep(key) == \E g \in MapGeoranges : SetMapCall(key, DefaultProj, NoneStr, g)

\* C19: plot.setmap(key=k) succeeds for every key the docstring lists: it
\* raises nothing, creates the axes, and the plot has the projection and the
\* georange of the key's preset.
C19_DocKeysSucceed ==
    [][\A key \in DocKeys : KeyStep(key) =>
        /\ err' = ""
        /\ plot'.ax
        /\ plot'.proj = ProjShort(FromMapKey(key).proj)
        /\ plot'.georange = FromMapKey(key).georange]_vars

\* a step of plot.setmap(projection=projection) with proj not given
ProjectionStep(projection) ==
    \E g \in MapGeoranges : SetMapCall(NoneStr, DefaultProj, projection, g)

\* the projection a Basemap-style name stands for
BasemapProjection(projection) ==
    CASE projection = "cyl"    -> "PlateCarree"
      [] projection = "merc"   -> "Mercator"
      [] projection = "lcc"    -> "LambertConformal"
      [] projection = "geos"   -> "Geostationary"
      [] projection = "npaeqd" -> "NorthPolarStereo"
      [] OTHER                 -> NoneStr

\* C20: plot.setmap(projection=p) with a Basemap-style name and no other
\* projection argument selects the projection the name stands for (cyl,
\* merc, lcc, geos, npaeqd) and creates the axes, and raises PlotError for
\* every other name.
C20_ProjectionSelects ==
    [][\A projection \in BasemapNames : ProjectionStep(projection) =>
        IF BasemapProjection(projection) # NoneStr
        THEN err' = "" /\ plot'.ax
                /\ plot'.proj = BasemapProjection(projection)
        ELSE err' = "PlotError"]_vars

\* a valid region that lies wholly east of 180 in the 0..360 convention
EastOf180Region(georange) ==
    /\ ValidRegion(georange)
    /\ 180 <= LonMin(georange)
    /\ LonMax(georange) <= 360

\* the geometry has a point at the longitudes lonMin-360 .. lonMax-360
MeetsWrapped(g, r) ==
    Meets(g, LonMin(r) - 360, LonMax(r) - 360, LatMin(r), LatMax(r))

\* C23: a build over a valid region with 180 <= lonMin < lonMax <= 360 stores
\* the upstream geometries that have a point at the longitudes lonMin-360 ..
\* lonMax-360 within the latitudes of the region, in upstream order.
C23_EastOf180BuildWraps ==
    \A n \in DOMAIN built :
        LET b == built[n]
            up == upstream[b.source] IN
        EastOf180Region(b.georange) =>
            ListsInOrder(b.geoms, up, {k \in DOMAIN up : MeetsWrapped(up[k], b.georange)})

TitleOrColorbarStep ==
    /\ plot.ax
    /\ \/ \E s \in Titles : Title(s)
       \/ \E u \in Units, o \in Orientations : Colorbar(u, o)

\* C21: on a plot made with inside_axis=True, title(s) and colorbar(...) add
\* no text, no colorbar axes and no other artist to the figure.
C21_InsideAxisIgnoresTitleAndColorbar ==
    [][plot.inside_axis /\ TitleOrColorbarStep =>
        fig' = fig /\ artists' = artists]_vars

\* C22: merge_dict(a, b) returns a, changed in place, in which every key of
\* a has the value it had in a, every key of b that a did not have has b's
\* value, and no other key is present; b is as it was; and a second
\* merge_dict of the result with b gives the result again.
C22_MergeKeepsA ==
    calc.f = "merge_dict" =>
        LET a == calc.args[1]
            b == calc.args[2]
            merged == calc.value IN
        /\ Keys(merged) = Keys(a) \cup Keys(b)
        /\ Len(merged) = Cardinality(Keys(merged))
        /\ \A k \in Keys(a) : Get(merged, k) = Get(a, k)
        /\ \A k \in Keys(b) \ Keys(a) : Get(merged, k) = Get(b, k)
        /\ calc.after[1] = merged
        /\ calc.after[2] = b
        /\ MergeDict(merged, b) = merged

\* a merge of two dicts that share a key with different values and have a
\* key each that the other lacks
C22_Witness ==
    /\ calc.f = "merge_dict"
    /\ LET a == calc.args[1]
           b == calc.args[2] IN
       /\ \E k \in Keys(a) \cap Keys(b) : Get(a, k) # Get(b, k)
       /\ Keys(a) \ Keys(b) # {}
       /\ Keys(b) \ Keys(a) # {}
       /\ calc.value # a

\* C25: a contour call that is given no clabeldict and no vlinedict labels
\* with the fontsize['clabel'] its Northhem has at the call and sets its
\* vline contours to the color and lw of the call, whatever earlier calls on
\* this or another Northhem were given.
C25_ContourCallsIndependent ==
    [][\A h \in Hems, ls \in LineStyles, vline \in BOOLEAN, clabel \in BOOLEAN :
        Contour(h, ls.color, ls.lw, vline, clabel) =>
            /\ clabel => Get(hem'[h].labelled, "fontsize") = hem[h].clabel
            /\ vline => /\ Get(hem'[h].styled, "color") = ls.color
                        /\ Get(hem'[h].styled, "lw") = ls.lw]_vars

\* a step of maxminnote, of the plot or of a Northhem, with a type that is
\* not max, min or mean in any case
UnsupportedTypeStep ==
    \/ \E d \in NoteData, t \in OtherTypes : PlotMaxMinNote(d, "T2m", t)
    \/ \E h \in Hems, d \in NoteData, t \in OtherTypes : HemMaxMinNote(h, d, "T2m", t)

\* C27: Plot.maxminnote and Northhem.maxminnote with a type other than max,
\* min or mean, in any case of letters, raise PlotError and leave mmnote as
\* it was.
C27_UnsupportedTypeRaisesPlotError ==
    [][UnsupportedTypeStep =>
        /\ err' = "PlotError"
        /\ plot'.mmnote = plot.mmnote
        /\ \A h \in Hems : hem'[h].mmnote = hem[h].mmnote]_vars

Tokens(cmd) == SelectSeq(LowerCmd(cmd), LAMBDA piece : piece # " ")

\* C26: plot.draw(cmd), on a plot that has axes and a data grid, goes once
\* into the draw method of each token of the lower-cased cmd, in the order of
\* the tokens, prints and skips a token that is no command, and returns
\* without raising.
C26_DrawDispatchesEveryToken ==
    [][\A cmd \in Commands \ {<<>>} : (plot.ax /\ plot.xy /\ Draw(cmd)) =>
        /\ err' = ""
        /\ calls' = [k \in DOMAIN Tokens(cmd) |-> MethodOf(<<Tokens(cmd)[k]>>)]]_vars

============================================================================
